---- MODULE Spec2Model ----
(***************************************************************************)
(* Variant generation engine of Commander Spellbook                        *)
(* (backend/spellbook/variants.py): the combo graph, the pruning passes,   *)
(* the 0/1 program solved per generator combo, and the reconciliation of   *)
(* the computed variants with the persisted catalog.                       *)
(*                                                                         *)
(* Strings are sequences of one-character tokens, so that joins and case   *)
(* conversion are computed.  The sha256 digest of the canonical JSON       *)
(* document is represented by the canonical document itself (the pair of   *)
(* sorted id lists).                                                       *)
(***************************************************************************)
EXTENDS Integers, Sequences, FiniteSets, TLC

\* ------------------------------------------------------------------ bounds
MaxRuns == 2
MaxEdits == 2
MaxAttempts == 3
MaxLen == 2

\* --------------------------------------------------------------- constants
MAX_CARDS_IN_COMBO == 5

NOT_VISITED == "NOT_VISITED"
VISITING == "VISITING"
VISITED == "VISITED"

\* Variant.Status
Status_NEW == "N"
Status_DRAFT == "D"
Status_NOT_WORKING == "NW"
Status_OK == "OK"
Status_RESTORE == "R"
VariantStatus == {Status_NEW, Status_DRAFT, Status_NOT_WORKING, Status_OK, Status_RESTORE}
DefaultStatus == Status_NEW
DefaultFrozen == FALSE

\* ----------------------------------------------------------------- helpers
Range(s) == {s[i] : i \in 1..Len(s)}

SetMin(S) == CHOOSE x \in S : \A y \in S : x <= y
SetMax(S) == CHOOSE x \in S : \A y \in S : y <= x

\* sorted(...) of a set of integers, ascending
RECURSIVE SortedSeq(_)
SortedSeq(S) == IF S = {} THEN <<>>
                ELSE LET m == SetMin(S) IN <<m>> \o SortedSeq(S \ {m})

\* sorted(...) of a list of integers (duplicates kept)
RECURSIVE Insert(_, _)
Insert(x, s) == IF s = <<>> THEN <<x>>
                ELSE IF x <= Head(s) THEN <<x>> \o s
                ELSE <<Head(s)>> \o Insert(x, Tail(s))

RECURSIVE sorted(_)
sorted(s) == IF s = <<>> THEN <<>> ELSE Insert(Head(s), sorted(Tail(s)))

\* the lists without repetition of the elements of a set
Orderings(S) ==
    {s \in [1..Cardinality(S) -> S] : \A i, j \in 1..Cardinality(S) : i # j => s[i] # s[j]}

\* sep.join(parts)
RECURSIVE join(_, _)
join(sep, parts) ==
    IF parts = <<>> THEN <<>>
    ELSE IF Len(parts) = 1 THEN Head(parts)
    ELSE Head(parts) \o <<sep>> \o join(sep, Tail(parts))

\* str.upper() on one character
upper(ch) == CASE ch = "w" -> "W" [] ch = "u" -> "U" [] ch = "b" -> "B"
               [] ch = "r" -> "R" [] ch = "g" -> "G" [] ch = "c" -> "C"
               [] ch = "s" -> "S" [] OTHER -> ch

\* ------------------------------------------------------------------- nodes
CardNode(i) == <<"card", i>>
TemplateNode(i) == <<"template", i>>
FeatureNode(i) == <<"feature", i>>
ComboNode(i) == <<"combo", i>>

IdsOf(kind, nodes) == {n[2] : n \in {m \in nodes : m[1] = kind}}

\* --------------------------------------------------------------- catalogs
NoText == [zone_locations |-> <<>>, cards_state |-> <<>>, other_prerequisites |-> <<>>,
           mana_needed |-> <<>>, description |-> <<>>]
Described(d, m) == [NoText EXCEPT !.description = d, !.mana_needed = m]

\* S3/S6: H uses card 1 and produces feature 1; G uses card 2 and needs it.
Chain ==
    [cards |-> {1, 2}, templates |-> {}, features |-> {1, 2}, combos |-> {1, 2},
     order |-> <<1, 2>>,
     identity |-> (1 :> <<"W">>) @@ (2 :> <<"u">>),
     utility |-> {},
     fcards |-> (1 :> <<>>) @@ (2 :> <<>>),
     uses |-> (1 :> <<1>>) @@ (2 :> <<2>>),
     requires |-> (1 :> <<>>) @@ (2 :> <<>>),
     needs |-> (1 :> <<>>) @@ (2 :> <<1>>),
     produces |-> (1 :> <<1>>) @@ (2 :> <<2>>),
     removes |-> (1 :> {}) @@ (2 :> {}),
     generator |-> {1, 2},
     text |-> (1 :> Described(<<"a">>, <<"{", "W", "}">>)) @@ (2 :> Described(<<"b">>, <<>>))]

\* A needs feature 1; B makes feature 1 from feature 2; A itself (or card 2) gives feature 2.
Cycle ==
    [cards |-> {1, 2}, templates |-> {}, features |-> {1, 2}, combos |-> {1, 2},
     order |-> <<1, 2>>,
     identity |-> (1 :> <<"B">>) @@ (2 :> <<"R">>),
     utility |-> {},
     fcards |-> (1 :> <<>>) @@ (2 :> <<2>>),
     uses |-> (1 :> <<1>>) @@ (2 :> <<>>),
     requires |-> (1 :> <<>>) @@ (2 :> <<>>),
     needs |-> (1 :> <<1>>) @@ (2 :> <<2>>),
     produces |-> (1 :> <<2>>) @@ (2 :> <<1>>),
     removes |-> (1 :> {}) @@ (2 :> {}),
     generator |-> {1},
     text |-> (1 :> Described(<<"a">>, <<>>)) @@ (2 :> Described(<<>>, <<>>))]

\* G needs features 1 and 2; H makes feature 1 from card 1; card 1 grants feature 2.
SharedCard ==
    [cards |-> {1}, templates |-> {}, features |-> {1, 2, 3}, combos |-> {1, 2},
     order |-> <<1, 2>>,
     identity |-> (1 :> <<"C">>),
     utility |-> {},
     fcards |-> (1 :> <<>>) @@ (2 :> <<1>>) @@ (3 :> <<>>),
     uses |-> (1 :> <<1>>) @@ (2 :> <<>>),
     requires |-> (1 :> <<>>) @@ (2 :> <<>>),
     needs |-> (1 :> <<>>) @@ (2 :> <<1, 2>>),
     produces |-> (1 :> <<1>>) @@ (2 :> <<3>>),
     removes |-> (1 :> {}) @@ (2 :> {}),
     generator |-> {1, 2},
     text |-> (1 :> Described(<<"a">>, <<>>)) @@ (2 :> Described(<<"b">>, <<>>))]

\* G uses card 1 and needs feature 1, which H1 makes from template 1 and H2 from template 2.
TemplateTie ==
    [cards |-> {1}, templates |-> {1, 2}, features |-> {1, 2}, combos |-> {1, 2, 3},
     order |-> <<1, 2, 3>>,
     identity |-> (1 :> <<"W", "U">>),
     utility |-> {},
     fcards |-> (1 :> <<>>) @@ (2 :> <<>>),
     uses |-> (1 :> <<1>>) @@ (2 :> <<>>) @@ (3 :> <<>>),
     requires |-> (1 :> <<>>) @@ (2 :> <<1>>) @@ (3 :> <<2>>),
     needs |-> (1 :> <<1>>) @@ (2 :> <<>>) @@ (3 :> <<>>),
     produces |-> (1 :> <<2>>) @@ (2 :> <<1>>) @@ (3 :> <<1>>),
     removes |-> (1 :> {}) @@ (2 :> {}) @@ (3 :> {}),
     generator |-> {1},
     text |-> (1 :> Described(<<"a">>, <<>>)) @@ (2 :> Described(<<"b">>, <<>>))
              @@ (3 :> Described(<<"c">>, <<>>))]

\* S2: combo 1 uses six cards.  Combo 2 uses cards 1,2 and needs features 1 and 2,
\* made by combo 3 from cards 3,4 and by combo 4 from cards 5,6.
Budget ==
    [cards |-> {1, 2, 3, 4, 5, 6}, templates |-> {}, features |-> {1, 2, 3}, combos |-> {1, 2, 3, 4},
     order |-> <<1, 2, 3, 4>>,
     identity |-> [c \in 1..6 |-> <<"B">>],
     utility |-> {},
     fcards |-> (1 :> <<>>) @@ (2 :> <<>>) @@ (3 :> <<>>),
     uses |-> (1 :> <<1, 2, 3, 4, 5, 6>>) @@ (2 :> <<1, 2>>) @@ (3 :> <<3, 4>>) @@ (4 :> <<5, 6>>),
     requires |-> [b \in 1..4 |-> <<>>],
     needs |-> (1 :> <<>>) @@ (2 :> <<1, 2>>) @@ (3 :> <<>>) @@ (4 :> <<>>),
     produces |-> (1 :> <<3>>) @@ (2 :> <<3>>) @@ (3 :> <<1>>) @@ (4 :> <<2>>),
     removes |-> [b \in 1..4 |-> {}],
     generator |-> {1, 2},
     text |-> [b \in 1..4 |-> NoText]]

\* G requires template 1 only.
TemplateOnly ==
    [cards |-> {1}, templates |-> {1}, features |-> {1}, combos |-> {1},
     order |-> <<1>>,
     identity |-> (1 :> <<"R">>),
     utility |-> {},
     fcards |-> (1 :> <<>>),
     uses |-> (1 :> <<>>),
     requires |-> (1 :> <<1>>),
     needs |-> (1 :> <<>>),
     produces |-> (1 :> <<1>>),
     removes |-> (1 :> {}),
     generator |-> {1},
     text |-> (1 :> Described(<<"a">>, <<>>))]

\* G requires template 1 and needs feature 1, granted by card 1 or made by H from template 2.
ZeroCard ==
    [cards |-> {1}, templates |-> {1, 2}, features |-> {1, 2}, combos |-> {1, 2},
     order |-> <<1, 2>>,
     identity |-> (1 :> <<"g">>),
     utility |-> {},
     fcards |-> (1 :> <<1>>) @@ (2 :> <<>>),
     uses |-> (1 :> <<>>) @@ (2 :> <<>>),
     requires |-> (1 :> <<1>>) @@ (2 :> <<2>>),
     needs |-> (1 :> <<1>>) @@ (2 :> <<>>),
     produces |-> (1 :> <<2>>) @@ (2 :> <<1>>),
     removes |-> (1 :> {}) @@ (2 :> {}),
     generator |-> {1},
     text |-> (1 :> Described(<<"a">>, <<>>)) @@ (2 :> Described(<<"b">>, <<>>))]

\* G1 and G2 both use card 1 alone; G1 produces feature 1 and the utility feature 3,
\* G2 produces feature 2 and removes feature 1.
SharedRoots ==
    [cards |-> {1}, templates |-> {}, features |-> {1, 2, 3}, combos |-> {1, 2},
     order |-> <<1, 2>>,
     identity |-> (1 :> <<"r", "W">>),
     utility |-> {3},
     fcards |-> (1 :> <<>>) @@ (2 :> <<>>) @@ (3 :> <<>>),
     uses |-> (1 :> <<1>>) @@ (2 :> <<1>>),
     requires |-> (1 :> <<>>) @@ (2 :> <<>>),
     needs |-> (1 :> <<>>) @@ (2 :> <<>>),
     produces |-> (1 :> <<1, 3>>) @@ (2 :> <<2>>),
     removes |-> (1 :> {}) @@ (2 :> {1}),
     generator |-> {1, 2},
     text |-> (1 :> Described(<<"a">>, <<>>)) @@ (2 :> Described(<<"b">>, <<>>))]

\* G needs feature 1, made by H1 from card 1 and templates 1, 2 or by H2 from cards 2, 3.
CardsFirst ==
    [cards |-> {1, 2, 3}, templates |-> {1, 2}, features |-> {1, 2}, combos |-> {1, 2, 3},
     order |-> <<1, 2, 3>>,
     identity |-> (1 :> <<"W">>) @@ (2 :> <<"U">>) @@ (3 :> <<"G">>),
     utility |-> {},
     fcards |-> (1 :> <<>>) @@ (2 :> <<>>),
     uses |-> (1 :> <<>>) @@ (2 :> <<1>>) @@ (3 :> <<2, 3>>),
     requires |-> (1 :> <<>>) @@ (2 :> <<1, 2>>) @@ (3 :> <<>>),
     needs |-> (1 :> <<1>>) @@ (2 :> <<>>) @@ (3 :> <<>>),
     produces |-> (1 :> <<2>>) @@ (2 :> <<1>>) @@ (3 :> <<1>>),
     removes |-> (1 :> {}) @@ (2 :> {}) @@ (3 :> {}),
     generator |-> {1},
     text |-> (1 :> Described(<<"a">>, <<>>)) @@ (2 :> Described(<<"b">>, <<>>))
              @@ (3 :> Described(<<"c">>, <<>>))]

Catalogs == {Chain, Cycle, SharedCard, TemplateTie, Budget, TemplateOnly, ZeroCard, SharedRoots}

AllNodes(K) == {CardNode(i) : i \in K.cards} \cup {TemplateNode(i) : i \in K.templates}
               \cup {FeatureNode(i) : i \in K.features} \cup {ComboNode(i) : i \in K.combos}

\* --------------------------------------------------------- Graph.__init__
\* the order in which data.combos is iterated (the primary-key order in the
\* catalogs above)
ComboOrder(K) == K.order

produced_by_combos(K, f) ==
    SelectSeq(ComboOrder(K), LAMBDA b : f \in Range(K.produces[b]))

needed_by_combos(K, f) ==
    SelectSeq(ComboOrder(K), LAMBDA b : f \in Range(K.needs[b]))

\* Node.state / Node.depth / Node.down of every node of a new Graph (the defaults
\* of class Node); entered lists the combos _combo_nodes_down was called for since
\* the graph was built or reset, kept beside the fields to state properties of
\* the recursion
Graph_init(K) == [state |-> [n \in AllNodes(K) |-> NOT_VISITED],
                  depth |-> [n \in AllNodes(K) |-> 0],
                  down |-> [n \in AllNodes(K) |-> FALSE],
                  entered |-> <<>>]

\* the state of the nodes left as the pruning passes set it
reset_KeepsState(g) == [state |-> g.state,
                        depth |-> [n \in DOMAIN g.depth |-> 0],
                        down |-> [n \in DOMAIN g.down |-> FALSE],
                        entered |-> <<>>]

\* Graph.reset()
reset(g) == [state |-> [n \in DOMAIN g.state |-> NOT_VISITED],
             depth |-> [n \in DOMAIN g.depth |-> 0],
             down |-> [n \in DOMAIN g.down |-> FALSE],
             entered |-> <<>>]

SetState(g, ns, s) == [g EXCEPT !.state = [n \in DOMAIN g.state |-> IF n \in ns THEN s ELSE g.state[n]]]
SetDepth(g, ns, d) == [g EXCEPT !.depth = [n \in DOMAIN g.depth |-> IF n \in ns THEN d ELSE g.depth[n]]]
SetDown(g, ns) == [g EXCEPT !.down = [n \in DOMAIN g.down |-> IF n \in ns THEN TRUE ELSE g.down[n]]]

\* ------------------------------------------------------------ downward pass
RECURSIVE combo_nodes_down(_, _, _, _, _)
RECURSIVE feature_nodes_down(_, _, _, _, _)
RECURSIVE NeededLoop(_, _, _, _, _, _, _, _)
RECURSIVE ProducersLoop(_, _, _, _, _, _, _, _)

\* the loop "for f in combo.features_needed" of _combo_nodes_down, from index i
NeededLoop(K, g, needs, i, amount, depth, needed, acc) ==
    IF i > Len(needs) THEN [fail |-> FALSE, g |-> g, needed |-> needed, nodes |-> acc]
    ELSE IF g.state[FeatureNode(needs[i])] = VISITING
         THEN [fail |-> TRUE, g |-> g, needed |-> needed, nodes |-> acc]
    ELSE LET r == feature_nodes_down(K, g, needs[i], amount, depth + 1)
         IN  IF r.nodes = {}
             THEN [fail |-> TRUE, g |-> r.g, needed |-> needed, nodes |-> acc]
             ELSE NeededLoop(K, r.g, needs, i + 1, amount, depth,
                             needed \cup {FeatureNode(needs[i])}, acc \cup r.nodes)

combo_nodes_down(K, g, b, base_cards_amount, depth) ==
    LET g1 == [SetState(g, {ComboNode(b)}, VISITING) EXCEPT !.entered = Append(@, b)]
        cards == {CardNode(c) : c \in {x \in Range(K.uses[b]) : g1.state[CardNode(x)] = NOT_VISITED}}
        templates == {TemplateNode(t) : t \in {x \in Range(K.requires[b]) : g1.state[TemplateNode(x)] = NOT_VISITED}}
        cards_amount == Cardinality(cards) + Cardinality(templates) + base_cards_amount
    IN  IF cards_amount > MAX_CARDS_IN_COMBO THEN [nodes |-> {}, g |-> g1]
        ELSE IF Len(K.needs[b]) = 0
        THEN [nodes |-> cards \cup templates \cup {ComboNode(b)},
              g |-> SetDepth(SetState(g1, cards \cup templates, VISITED), cards \cup templates, depth)]
        ELSE LET r == NeededLoop(K, g1, K.needs[b], 1, cards_amount, depth, {}, {})
                 marked == cards \cup templates \cup r.needed
             IN  IF r.fail THEN [nodes |-> {}, g |-> r.g]
                 ELSE [nodes |-> cards \cup templates \cup r.needed \cup r.nodes \cup {ComboNode(b)},
                       g |-> SetDepth(SetState(r.g, marked, VISITED), marked, depth)]

\* the loop "for c in feature.produced_by_combos" of _feature_nodes_down, from index i
ProducersLoop(K, g, producers, i, base_cards_amount, depth, combos, other) ==
    IF i > Len(producers) THEN [g |-> g, combos |-> combos, other |-> other]
    ELSE IF g.state[ComboNode(producers[i])] = NOT_VISITED
    THEN LET r == combo_nodes_down(K, g, producers[i], base_cards_amount, depth + 1)
         IN  IF r.nodes # {}
             THEN ProducersLoop(K, r.g, producers, i + 1, base_cards_amount, depth,
                                combos \cup {ComboNode(producers[i])}, other \cup r.nodes)
             ELSE ProducersLoop(K, r.g, producers, i + 1, base_cards_amount, depth, combos, other)
    ELSE ProducersLoop(K, g, producers, i + 1, base_cards_amount, depth, combos, other)

feature_nodes_down(K, g, f, base_cards_amount, depth) ==
    LET g1 == SetState(g, {FeatureNode(f)}, VISITING)
        cards == {CardNode(c) : c \in {x \in Range(K.fcards[f]) : g1.state[CardNode(x)] = NOT_VISITED}}
        r == ProducersLoop(K, g1, produced_by_combos(K, f), 1, base_cards_amount, depth, {}, {})
    IN  [nodes |-> cards \cup r.combos \cup r.other,
         g |-> SetDepth(r.g, cards \cup r.combos, depth)]

\* -------------------------------------------------------------- upward pass
RECURSIVE combo_nodes_up(_, _, _)
RECURSIVE feature_nodes_up(_, _, _)
RECURSIVE ProducedLoop(_, _, _, _, _)
RECURSIVE NeededByLoop(_, _, _, _, _)

\* the loop "for f in combo.features_produced" of _combo_nodes_up, from index i
ProducedLoop(K, g, produced, i, acc) ==
    IF i > Len(produced) THEN [nodes |-> acc, g |-> g]
    ELSE IF g.state[FeatureNode(produced[i])] = NOT_VISITED
    THEN LET r == feature_nodes_up(K, g, produced[i])
         IN  ProducedLoop(K, SetState(r.g, {FeatureNode(produced[i])}, VISITED), produced, i + 1,
                          acc \cup {FeatureNode(produced[i])} \cup r.nodes)
    ELSE ProducedLoop(K, g, produced, i + 1, acc)

combo_nodes_up(K, g, b) ==
    ProducedLoop(K, SetState(g, {ComboNode(b)}, VISITING), K.produces[b], 1, {})

\* the loop "for c in feature.needed_by_combos" of _feature_nodes_up, from index i
NeededByLoop(K, g, needers, i, acc) ==
    IF i > Len(needers) THEN [nodes |-> acc, g |-> g]
    ELSE IF g.state[ComboNode(needers[i])] = NOT_VISITED
    THEN LET r == combo_nodes_up(K, g, needers[i])
         IN  NeededByLoop(K, SetState(r.g, {ComboNode(needers[i])}, VISITED), needers, i + 1,
                          acc \cup {ComboNode(needers[i])} \cup r.nodes)
    ELSE NeededByLoop(K, g, needers, i + 1, acc)

feature_nodes_up(K, g, f) ==
    NeededByLoop(K, SetState(g, {FeatureNode(f)}, VISITING), needed_by_combos(K, f), 1, {})

\* the loop "for node in nodes.copy()" of Graph.variants; the nodes found do not
\* depend on the order, features are taken first and then combos, by id
RECURSIVE UpStep(_, _, _, _, _)
UpStep(K, g, order, i, acc) ==
    IF i > Len(order) THEN [nodes |-> acc, g |-> g]
    ELSE LET n == order[i]
             r == IF n[1] = "feature" THEN feature_nodes_up(K, g, n[2])
                  ELSE combo_nodes_up(K, g, n[2])
         IN  UpStep(K, r.g, order, i + 1, acc \cup r.nodes)

UpOrder(nodes) ==
    [i \in 1..Cardinality(IdsOf("feature", nodes)) |-> FeatureNode(SortedSeq(IdsOf("feature", nodes))[i])]
    \o [i \in 1..Cardinality(IdsOf("combo", nodes)) |-> ComboNode(SortedSeq(IdsOf("combo", nodes))[i])]

\* lines 269-282 of Graph.variants: the pruned node set and the node fields after it
Prune(K, g, combo_id) ==
    LET d == combo_nodes_down(K, g, combo_id, 0, 0)
        g1 == SetDown(d.g, d.nodes)
        u == UpStep(K, g1, UpOrder(d.nodes), 1, d.nodes)
    IN  [nodes |-> u.nodes, g |-> u.g]

\* -------------------------------------------------------------- base_model
\* an assignment is the set A of the nodes whose 0/1 variable has value 1
IngredientCount(A) == Cardinality({n \in A : n[1] \in {"card", "template"}})

\* the budget taken one too large
V_OffByOne(A) == IngredientCount(A) <= MAX_CARDS_IN_COMBO + 1

\* constraint V: the sum of the card and template variables is at most MAX_CARDS_IN_COMBO
V(A) == IngredientCount(A) <= MAX_CARDS_IN_COMBO

\* the variables a combo is constrained on: ingredients marked down or present in the model
combo_vars(K, g, nodes, b) ==
    {CardNode(c) : c \in {x \in Range(K.uses[b]) : g.down[CardNode(x)] \/ CardNode(x) \in nodes}}
    \cup {TemplateNode(t) : t \in {x \in Range(K.requires[b]) : g.down[TemplateNode(x)] \/ TemplateNode(x) \in nodes}}
    \cup {FeatureNode(f) : f \in {x \in Range(K.needs[b]) : g.down[FeatureNode(x)] \/ FeatureNode(x) \in nodes}}

\* constraints BC, BT, BF (b <= x) and BCFT (b >= sum - count + 1) of combo b
ComboConstraints(K, g, nodes, A, b) ==
    LET vars == combo_vars(K, g, nodes, b)
    IN  /\ ComboNode(b) \in A => vars \subseteq A
        /\ vars \subseteq A => ComboNode(b) \in A

\* the producers of a feature that have a variable in the model
feature_vars(K, nodes, f) ==
    {CardNode(c) : c \in {x \in Range(K.fcards[f]) : CardNode(x) \in nodes}}
    \cup {ComboNode(b) : b \in {x \in Range(produced_by_combos(K, f)) : ComboNode(x) \in nodes}}

\* constraints FC, FB (f >= x) and FCB (f <= sum) of feature f
FeatureConstraints(K, nodes, A, f) ==
    LET vars == feature_vars(K, nodes, f)
    IN  /\ \A p \in vars : p \in A => FeatureNode(f) \in A
        /\ FeatureNode(f) \in A => vars \cap A # {}

\* combo_model: constraint XB, the root combo fires
XB(A, combo_id) == ComboNode(combo_id) \in A

\* the cut excluding the very card set of the solution only
VariantsCuts_Exact(A, cuts) == \A cut \in cuts : cut # {n \in A : n[1] = "card"}

\* constraint list Variants: sum of the cards of an earlier solution <= their number - 1
VariantsCuts(A, cuts) == \A cut \in cuts : ~(cut \subseteq A)

\* model.Variants.add(sum(model.c[i] for i in card_id_list) <= len(card_id_list) - 1)
Variants_add(m, cards) == [m EXCEPT !.Variants = @ \cup {cards}]

Feasible(K, g, nodes, combo_id, cuts, A) ==
    /\ XB(A, combo_id)
    /\ V(A)
    /\ VariantsCuts(A, cuts)
    /\ \A b \in IdsOf("combo", nodes) : ComboConstraints(K, g, nodes, A, b)
    /\ \A f \in IdsOf("feature", nodes) : FeatureConstraints(K, nodes, A, f)

\* objective MinimizeCardsObj
objexpr1(nodes, A) ==
    (Cardinality(IdsOf("template", nodes)) + 1) * Cardinality(IdsOf("card", A))
    + Cardinality(IdsOf("template", A))

\* objective MaximizeCombosObj
objexpr2(nodes, A) ==
    (Cardinality(IdsOf("feature", nodes)) + 1) * Cardinality(IdsOf("combo", A))
    + Cardinality(IdsOf("feature", A))

\* the model as base_model returns it: no cut, an empty Sequential list, both
\* objectives deactivated
base_model(nodes) == [nodes |-> nodes, Variants |-> {}, Sequential |-> <<>>, active |-> {}]

activate(m, objective) == [m EXCEPT !.active = @ \cup {objective}]
deactivate(m, objective) == [m EXCEPT !.active = @ \ {objective}]

\* the Sequential constraint left out of the second solve
Sequential_add_Nothing(m, value) == m

\* model.Sequential.add(model.MinimizeCardsObj <= value)
Sequential_add(m, value) == [m EXCEPT !.Sequential = Append(@, value)]

\* model.Sequential.clear()
Sequential_clear(m) == [m EXCEPT !.Sequential = <<>>]

\* opt.solve(model): the optimal assignments of the active objective, empty when
\* the termination condition is not optimal; constrained are the assignments that
\* satisfy the constraints base_model and combo_model built and the Variants cuts,
\* which are the same for the two solves of one call
opt_solve(m, constrained) ==
    LET feasible == {A \in constrained :
                        \A k \in 1..Len(m.Sequential) : objexpr1(m.nodes, A) <= m.Sequential[k]}
    IN  IF feasible = {} THEN {}
        ELSE IF "MinimizeCardsObj" \in m.active
        THEN LET v1 == SetMin({objexpr1(m.nodes, A) : A \in feasible})
             IN  {A \in feasible : objexpr1(m.nodes, A) = v1}
        ELSE LET v2 == SetMax({objexpr2(m.nodes, A) : A \in feasible})
             IN  {A \in feasible : objexpr2(m.nodes, A) = v2}

\* solve_combo_model: solutions are the assignments the solver can leave in the
\* variables when the function returns True (empty when it returns False), model
\* is the model after the call
solve_combo_model(K, g, m, combo_id) ==
    LET constrained == {A : A \in {B \in SUBSET m.nodes : Feasible(K, g, m.nodes, combo_id, m.Variants, B)}}
        m1 == activate(m, "MinimizeCardsObj")
        results1 == opt_solve(m1, constrained)
        m2 == deactivate(m1, "MinimizeCardsObj")
    IN  IF results1 = {} THEN [solutions |-> {}, model |-> m2]
        ELSE LET value == objexpr1(m.nodes, CHOOSE A \in results1 : TRUE)
                 m3 == activate(Sequential_add(m2, value), "MaximizeCombosObj")
                 results2 == opt_solve(m3, constrained)
                 m4 == Sequential_clear(deactivate(m3, "MaximizeCombosObj"))
             IN  [solutions |-> results2, model |-> m4]

\* sorted(cards, key=depth): the sort is stable and the order in which the model
\* lists its cards is the iteration order of a set of nodes, so cards of equal
\* depth come in any order
card_id_lists(g, ids) ==
    {s \in [1..Cardinality(ids) -> ids] :
        /\ \A i, j \in 1..Cardinality(ids) : i # j => s[i] # s[j]
        /\ \A i, j \in 1..Cardinality(ids) : i < j => g.depth[CardNode(s[i])] <= g.depth[CardNode(s[j])]}

\* ------------------------------------------------ get_variants_from_graph
\* the id lists hashed as they come, without sorted()
unique_id_Unsorted(cards, templates) == <<cards, templates>>

unique_id_from_cards_and_templates_ids(cards, templates) ==
    <<sorted(cards), sorted(templates)>>

\* the entry of the dict assigned anew at every yield, without the merge
Accumulate_Overwrites(result, combo_id, cards_ids, templates_ids, feature_ids, combo_ids) ==
    LET unique_id == unique_id_from_cards_and_templates_ids(cards_ids, templates_ids)
    IN  {x \in result : x.unique_id # unique_id}
        \cup {[unique_id |-> unique_id,
                card_ids |-> cards_ids,
                template_ids |-> templates_ids,
                feature_ids |-> feature_ids,
                included_ids |-> combo_ids,
                of_ids |-> {combo_id}]}

\* the body of "for variant in variants": result is the dict, as the set of its
\* values together with their keys
Accumulate(result, combo_id, cards_ids, templates_ids, feature_ids, combo_ids) ==
    LET unique_id == unique_id_from_cards_and_templates_ids(cards_ids, templates_ids)
    IN  IF \E x \in result : x.unique_id = unique_id
        THEN {IF x.unique_id = unique_id
              THEN [x EXCEPT !.of_ids = @ \cup {combo_id},
                             !.included_ids = @ \cup combo_ids,
                             !.feature_ids = @ \cup feature_ids]
              ELSE x : x \in result}
        ELSE result \cup {[unique_id |-> unique_id,
                           card_ids |-> cards_ids,
                           template_ids |-> templates_ids,
                           feature_ids |-> feature_ids,
                           included_ids |-> combo_ids,
                           of_ids |-> {combo_id}]}

\* ----------------------------------------------------------------- helpers
\* the removed features left in
subtract_removed_features_Keeps(K, included_ids, features) == features

subtract_removed_features(K, included_ids, features) ==
    features \ UNION {K.removes[b] : b \in included_ids \cap K.combos}

merge_identities(identities) ==
    LET i == UNION {{upper(identities[k][j]) : j \in 1..Len(identities[k])} : k \in 1..Len(identities)}
    IN  SelectSeq(<<"W", "U", "B", "R", "G">>, LAMBDA color : color \in i)

\* the inclusion tested the wrong way round
includes_any_Subset(v, others) == \E k \in 1..Len(others) : v \subseteq others[k]

\* the first element decides
includes_any_FirstOnly(v, others) == others # <<>> /\ Head(others) \subseteq v

\* for o in others: if v.issuperset(o): return True; return False
RECURSIVE includes_any(_, _)
includes_any(v, others) ==
    IF others = <<>> THEN FALSE
    ELSE IF Head(others) \subseteq v THEN TRUE
    ELSE includes_any(v, Tail(others))

\* values_list('identity') of a set of cards
identities_of(K, card_ids) ==
    [k \in 1..Cardinality(card_ids \cap K.cards) |-> K.identity[SortedSeq(card_ids \cap K.cards)[k]]]

\* sep.join(c.field for c in data.combos.filter(id__in=included_ids) if len(c.field) > 0)
joined_field(K, included_ids, field, sep) ==
    LET combos == SelectSeq(ComboOrder(K), LAMBDA b : b \in included_ids)
        filled == SelectSeq(combos, LAMBDA b : Len(K.text[b][field]) > 0)
    IN  join(sep, [k \in 1..Len(filled) |-> K.text[filled[k]][field]])

\* ------------------------------------------------------------------- Data
\* line 222: the card sets of the NOT_WORKING variants, one entry per variant in
\* the order the query returns them
not_working_variants(variants) ==
    LET rows == CHOOSE s \in Orderings({x \in variants : x.status = Status_NOT_WORKING}) : TRUE
    IN  [k \in 1..Len(rows) |-> rows[k].uses]

\* the utility features not loaded
Data_NoUtility(K, variants) ==
    [utility_features_ids |-> {},
     not_working_variants |-> not_working_variants(variants)]

Data(K, variants) ==
    [utility_features_ids |-> K.utility,
     not_working_variants |-> not_working_variants(variants)]

\* --------------------------------------------------------- update_variant
\* lines 406-408: of, includes and produces are written by set()
set_links(K, d, variant, variant_def) ==
    [variant EXCEPT
       !.of = variant_def.of_ids,
       !.includes = variant_def.included_ids,
       !.produces = subtract_removed_features(K, variant_def.included_ids, variant_def.feature_ids)
                    \ d.utility_features_ids]

\* lines 410-411
variant_ok(d, variant_def, status) ==
    \/ status = Status_OK
    \/ /\ status # Status_NOT_WORKING
       /\ ~includes_any(Range(variant_def.card_ids), d.not_working_variants)

\* lines 413-419: the text fields and the status of a restored variant
restore_fields(K, variant, variant_def, ok) ==
    [variant EXCEPT
       !.zone_locations = joined_field(K, variant_def.included_ids, "zone_locations", "\n"),
       !.cards_state = joined_field(K, variant_def.included_ids, "cards_state", "\n"),
       !.other_prerequisites = joined_field(K, variant_def.included_ids, "other_prerequisites", "\n"),
       !.mana_needed = joined_field(K, variant_def.included_ids, "mana_needed", " "),
       !.description = joined_field(K, variant_def.included_ids, "description", "\n"),
       !.status = IF ok THEN Status_NEW ELSE Status_NOT_WORKING]

\* variant.save() left out: only the links are written
update_variant_NeverSaves(K, d, variant, variant_def, status, restore) ==
    set_links(K, d, variant, variant_def)

\* the restore branch taken for every variant
update_variant_RestoresAll(K, d, variant, variant_def, status, restore) ==
    LET ok == variant_ok(d, variant_def, status)
    IN  [restore_fields(K, set_links(K, d, variant, variant_def), variant_def, ok)
            EXCEPT !.identity = merge_identities(identities_of(K, variant.uses))]

update_variant(K, d, variant, variant_def, status, restore) ==
    LET linked == set_links(K, d, variant, variant_def)
        identity == merge_identities(identities_of(K, variant.uses))
        ok == variant_ok(d, variant_def, status)
        restored == IF restore THEN restore_fields(K, linked, variant_def, ok) ELSE linked
        marked == IF ~ok THEN [restored EXCEPT !.status = Status_NOT_WORKING] ELSE restored
    IN  \* variant.save() writes the fields of the object; the links are written by set()
        IF ~ok \/ restore THEN [marked EXCEPT !.identity = identity] ELSE linked

\* --------------------------------------------------------- create_variant
create_variant(K, d, unique_id, variant_def) ==
    LET ok == ~includes_any(Range(variant_def.card_ids), d.not_working_variants)
    IN  [unique_id |-> unique_id,
         zone_locations |-> joined_field(K, variant_def.included_ids, "zone_locations", "\n"),
         cards_state |-> joined_field(K, variant_def.included_ids, "cards_state", "\n"),
         other_prerequisites |-> joined_field(K, variant_def.included_ids, "other_prerequisites", "\n"),
         mana_needed |-> joined_field(K, variant_def.included_ids, "mana_needed", " "),
         description |-> joined_field(K, variant_def.included_ids, "description", "\n"),
         identity |-> merge_identities(identities_of(K, Range(variant_def.card_ids))),
         status |-> IF ~ok THEN Status_NOT_WORKING ELSE DefaultStatus,
         frozen |-> DefaultFrozen,
         uses |-> Range(variant_def.card_ids),
         requires |-> Range(variant_def.template_ids),
         of |-> variant_def.of_ids,
         includes |-> variant_def.included_ids,
         produces |-> subtract_removed_features(K, variant_def.included_ids, variant_def.feature_ids)
                      \ d.utility_features_ids]

\* ------------------------------------------------------------------ state
VARIABLES
    catalog,      \* cards, templates, features and combos in the database
    db,           \* Variant.objects: the persisted variants
    pc,           \* position of generate_variants
    data,         \* Data(): what the snapshot evaluates when it is built
    to_restore,   \* unique ids with status RESTORE when the run starts
    old_id_set,   \* unique ids persisted when the run starts
    roots,        \* the generator combos get_variants_from_graph iterates
    rootIdx,      \* index in roots of the combo being processed
    graph,        \* state, depth and down of the nodes of the Graph
    model,        \* nodes of the model of the current root and its Variants cuts
    result,       \* the dict of get_variants_from_graph
    ret,          \* (added, restored, deleted) returned by the last run
    hist,         \* the variants persisted when the run started, and whether
                  \* the run directly follows a completed run
    clean,        \* a run has completed and nothing was edited since
    runs,         \* number of runs started
    edits,        \* number of admin edits made
    yields,       \* the variants yielded so far in the run, with the combo they were yielded for
    tx,           \* the writes of the transaction that was rolled back, if one was
    jobs,         \* Job.objects: the job rows, in the order of their creation
    driver,       \* position and job of each import_combos command, and of the admin view
    caller,       \* the command whose handle called generate_variants, NoJob for a direct call
    attempts,     \* number of attempts to start a job
    trace,        \* the variants yielded so far for the current root, in the order of the yields
    call          \* the last call of a utility function: its arguments and what it returned

vars == <<catalog, db, pc, data, to_restore, old_id_set, roots, rootIdx, graph, model,
          result, ret, hist, clean, runs, edits, yields, tx, jobs, driver, caller, attempts,
          trace, call>>

runVars == <<data, to_restore, old_id_set, roots, rootIdx, graph, model, result, ret, hist,
             yields, tx, trace, call>>

jobVars == <<jobs, driver, caller, attempts>>

\* generate_variants(job=None)
NoJob == "none"

\* the two processes running the import_combos command, and the admin view
Commands == {"cmd1", "cmd2"}
View == "view"

NoModel == base_model({})
NoCall == [fn |-> "none"]
NoData == [utility_features_ids |-> {}, not_working_variants |-> <<>>]

\* the state before anything has run, over one of the given catalogs
InitOver(Ks) ==
    /\ catalog \in Ks
    /\ db = {}
    /\ pc = "idle"
    /\ data = NoData
    /\ to_restore = {}
    /\ old_id_set = {}
    /\ roots = <<>>
    /\ rootIdx = 1
    /\ graph = Graph_init(catalog)
    /\ model = NoModel
    /\ result = {}
    /\ ret = <<0, 0, 0>>
    /\ hist = [pre |-> {}, succ |-> FALSE]
    /\ clean = FALSE
    /\ runs = 0
    /\ edits = 0
    /\ yields = {}
    /\ tx = {}
    /\ jobs = <<>>
    /\ driver = [w \in Commands \cup {View} |-> [pc |-> "idle", job |-> 0]]
    /\ caller = NoJob
    /\ attempts = 0
    /\ trace = <<>>
    /\ call = NoCall

Init == InitOver(Catalogs)

\* ------------------------------------------------------------------- jobs
\* Job.Status
Job_PENDING == "PENDING"
Job_SUCCESS == "SUCCESS"
Job_FAILURE == "FAILURE"

\* a job row; logged is the list of the progress messages written for the job,
\* kept beside the row to state properties of message
NewJob(name) ==
    [name |-> name, status |-> Job_PENDING, message |-> <<>>, logged |-> <<>>,
     termination |-> FALSE, expired |-> FALSE]

\* a job of that name is pending and its expected termination has not passed
JobRunning(js, name) ==
    \E j \in 1..Len(js) : js[j].name = name /\ js[j].status = Job_PENDING /\ ~js[j].expired

\* a job registered whatever is running
Job_start_NoCheck(js, name) == [job |-> Len(js) + 1, jobs |-> Append(js, NewJob(name))]

\* Job.start(name): the new job, or None (0) when one of that name is running
Job_start(js, name) ==
    IF JobRunning(js, name) THEN [job |-> 0, jobs |-> js]
    ELSE [job |-> Len(js) + 1, jobs |-> Append(js, NewJob(name))]

\* job.message += message + '\n'; job.save(...)
log_job(js, j, message) ==
    [js EXCEPT ![j].message = Append(@, message), ![j].logged = Append(@, message)]

RECURSIVE log_jobs(_, _, _)
log_jobs(js, j, messages) ==
    IF messages = <<>> THEN js ELSE log_jobs(log_job(js, j, Head(messages)), j, Tail(messages))

\* ------------------------------------------------------ generate_variants
\* lines 490-496 and 459-462: the snapshot, the two id sets, the graph
TakeSnapshot ==
    /\ data' = Data(catalog, db)
    /\ to_restore' = {v.unique_id : v \in {x \in db : x.status = Status_RESTORE}}
    /\ old_id_set' = {v.unique_id : v \in db}
    /\ roots' = SelectSeq(ComboOrder(catalog), LAMBDA b : b \in catalog.generator)
    /\ rootIdx' = 1
    /\ graph' = Graph_init(catalog)
    /\ model' = NoModel
    /\ result' = {}
    /\ hist' = [pre |-> db, succ |-> clean]
    /\ runs' = runs + 1
    /\ pc' = "root"
    /\ yields' = {}
    /\ tx' = {}
    /\ trace' = <<>>
    /\ UNCHANGED <<catalog, db, ret, clean, edits, call>>

\* generate_variants() called without a job
StartRun ==
    /\ pc = "idle"
    /\ runs < MaxRuns
    /\ TakeSnapshot
    /\ caller' = NoJob
    /\ UNCHANGED <<jobs, driver, attempts>>

\* Graph.variants up to the first solve: the two pruning passes and base_model;
\* when base_model returns None nothing is yielded and the graph is reset
BeginRoot ==
    /\ pc = "root"
    /\ rootIdx <= Len(roots)
    /\ LET p == Prune(catalog, graph, roots[rootIdx])
       IN  IF IdsOf("card", p.nodes) = {}
           THEN /\ graph' = reset(p.g)
                /\ rootIdx' = rootIdx + 1
                /\ model' = NoModel
                /\ pc' = "root"
           ELSE /\ graph' = p.g
                /\ model' = base_model(p.nodes)
                /\ pc' = "solve"
                /\ UNCHANGED rootIdx
    /\ trace' = <<>>
    /\ UNCHANGED <<catalog, db, data, to_restore, old_id_set, roots, result, ret, hist, clean, runs, edits,
                   yields, tx, call>>
    /\ UNCHANGED jobVars

\* one iteration of "while solve_combo_model(model, opt)": the variant is yielded
\* and accumulated, then the cut on its cards is added; a cut over no card is the
\* constant False, which the constraint list rejects with ValueError
SolveYield ==
    /\ pc = "solve"
    /\ LET solved == solve_combo_model(catalog, graph, model, roots[rootIdx])
       IN  \E A \in solved.solutions :
           \E card_id_list \in card_id_lists(graph, IdsOf("card", A)) :
              /\ result' = Accumulate(result, roots[rootIdx], card_id_list,
                                      SortedSeq(IdsOf("template", A)),
                                      IdsOf("feature", A), IdsOf("combo", A))
              /\ yields' = yields \cup
                    {[unique_id |-> unique_id_from_cards_and_templates_ids(
                                        card_id_list, SortedSeq(IdsOf("template", A))),
                      combo_id |-> roots[rootIdx],
                      feature_ids |-> IdsOf("feature", A),
                      combo_ids |-> IdsOf("combo", A)]}
              /\ trace' = Append(trace, [cards |-> card_id_list, A |-> A])
              /\ IF card_id_list = <<>>
                 THEN /\ pc' = "raised"
                      /\ model' = solved.model
                 ELSE /\ model' = Variants_add(solved.model, {CardNode(c) : c \in IdsOf("card", A)})
                      /\ pc' = "solve"
    /\ UNCHANGED <<catalog, db, data, to_restore, old_id_set, roots, rootIdx, graph, ret, hist, clean, runs, edits,
                   tx, call>>
    /\ UNCHANGED jobVars

\* solve_combo_model returns False: the generator ends and graph.reset() follows
EndRoot ==
    /\ pc = "solve"
    /\ solve_combo_model(catalog, graph, model, roots[rootIdx]).solutions = {}
    /\ graph' = reset(graph)
    /\ model' = NoModel
    /\ rootIdx' = rootIdx + 1
    /\ pc' = "root"
    /\ trace' = <<>>
    /\ UNCHANGED <<catalog, db, data, to_restore, old_id_set, roots, result, ret, hist, clean, runs, edits,
                   yields, tx, call>>
    /\ UNCHANGED jobVars

\* the test "unique_id in old_id_set" made against to_restore
Saved_TestsRestore(K, variants, d, olds, restores, defs) ==
    {IF \E x \in defs : x.unique_id = v.unique_id /\ x.unique_id \in restores
     THEN LET x == CHOOSE x \in defs : x.unique_id = v.unique_id
          IN  update_variant(K, d, v, x, v.status, TRUE)
     ELSE v : v \in variants}
    \cup {create_variant(K, d, x.unique_id, x) : x \in {y \in defs : y.unique_id \notin restores}}

\* lines 503-518: every computed variant is updated or created
Saved(K, variants, d, olds, restores, defs) ==
    {IF \E x \in defs : x.unique_id = v.unique_id /\ x.unique_id \in olds
     THEN LET x == CHOOSE x \in defs : x.unique_id = v.unique_id
          IN  update_variant(K, d, v, x, v.status, x.unique_id \in restores)
     ELSE v : v \in variants}
    \cup {create_variant(K, d, x.unique_id, x) : x \in {y \in defs : y.unique_id \notin olds}}

\* the delete query without its frozen=False filter
ToDelete_IgnoresFrozen(variants, olds, defs) ==
    {v \in variants : v.unique_id \in (olds \ {x.unique_id : x \in defs})}

\* the difference of the id sets taken the wrong way round
ToDelete_Swapped(variants, olds, defs) ==
    {v \in variants : v.unique_id \in ({x.unique_id : x \in defs} \ olds) /\ ~v.frozen}

\* lines 521-529: the variants the delete query removes
ToDelete(variants, olds, defs) ==
    {v \in variants : v.unique_id \in (olds \ {x.unique_id : x \in defs}) /\ ~v.frozen}

\* the block left by an exception keeps its writes
atomic_NoRollback(before, written, raised) == written

\* with transaction.atomic(): the writes of the block are committed when it is left
\* normally and undone when it is left by an exception
atomic(before, written, raised) == IF raised THEN before ELSE written

\* lines 498-501: the message saved in a transaction of its own before the
\* variants are saved
SavingMessage(js) ==
    IF caller = NoJob THEN js ELSE log_job(js, driver[caller].job, "Saving variants...")

\* lines 498-532: the transaction
Reconcile ==
    /\ pc = "root"
    /\ rootIdx > Len(roots)
    /\ jobs' = SavingMessage(jobs)
    /\ UNCHANGED <<driver, caller, attempts>>
    /\ LET saved == Saved(catalog, db, data, old_id_set, to_restore, result)
           new_id_set == {x.unique_id : x \in result}
           delete_query == ToDelete(saved, old_id_set, result)
       IN  /\ db' = atomic(db, saved \ delete_query, FALSE)
           /\ ret' = <<Cardinality(new_id_set \ old_id_set),
                       Cardinality(new_id_set \cap to_restore),
                       Cardinality(delete_query)>>
    /\ pc' = "done"
    /\ clean' = TRUE
    /\ UNCHANGED <<catalog, data, to_restore, old_id_set, roots, rootIdx, graph, model, result, hist, runs, edits,
                   yields, tx, trace, call>>

\* lines 498-532 when a statement of the transaction raises (the database refuses
\* a write): the variants of the definitions in done have been updated or created,
\* and with deleting the delete query has run as well
ReconcileFails ==
    /\ pc = "root"
    /\ rootIdx > Len(roots)
    /\ jobs' = SavingMessage(jobs)
    /\ UNCHANGED <<driver, caller, attempts>>
    /\ \E done \in SUBSET result : \E deleting \in BOOLEAN :
          /\ deleting => done = result
          /\ LET saved == Saved(catalog, db, data, old_id_set, to_restore, done)
                 written == IF deleting THEN saved \ ToDelete(saved, old_id_set, result) ELSE saved
             IN  /\ db' = atomic(db, written, TRUE)
                 /\ tx' = written
    /\ pc' = "raised"
    /\ UNCHANGED <<catalog, data, to_restore, old_id_set, roots, rootIdx, graph, model, result, ret, hist, clean,
                   runs, edits, yields, trace, call>>

\* the locals of the run are gone when generate_variants is left
DropLocals ==
    /\ pc' = "idle"
    /\ clean' = (pc = "done")
    /\ data' = NoData
    /\ to_restore' = {}
    /\ old_id_set' = {}
    /\ roots' = <<>>
    /\ rootIdx' = 1
    /\ graph' = Graph_init(catalog)
    /\ model' = NoModel
    /\ result' = {}
    /\ yields' = {}
    /\ tx' = {}
    /\ trace' = <<>>
    /\ UNCHANGED <<catalog, db, ret, hist, runs, edits, call>>

\* a direct caller gets the result or the exception
Return ==
    /\ pc \in {"done", "raised"}
    /\ caller = NoJob
    /\ DropLocals
    /\ UNCHANGED jobVars

\* ------------------------------------------------- import_combos: handle
\* lines 297-301: Job.start; without a job the command writes an error and returns
HandleStart(w) ==
    /\ driver[w].pc \in {"idle", "refused"}
    /\ attempts < MaxAttempts
    /\ LET r == Job_start(jobs, "import_combos")
       IN  /\ jobs' = r.jobs
           /\ driver' = [driver EXCEPT ![w] =
                            IF r.job = 0 THEN [pc |-> "refused", job |-> 0]
                            ELSE [pc |-> "import", job |-> r.job]]
    /\ attempts' = attempts + 1
    /\ UNCHANGED <<catalog, db, pc, clean, runs, edits, caller>>
    /\ UNCHANGED runVars

\* the except branch, lines 476-481: termination, FAILURE, and the message replaced
Failed(js, j) ==
    [js EXCEPT ![j].termination = TRUE, ![j].status = Job_FAILURE,
               ![j].message = <<"Failed to import combos">>]

\* lines 303-441 when the sheet holds no combo that is not imported yet: only the
\* progress messages are written
HandleImport(w) ==
    /\ driver[w].pc = "import"
    /\ jobs' = log_jobs(jobs, driver[w].job,
                        <<"Fetching combos...", "Found 0 combos", "Importing combos...">>)
    /\ driver' = [driver EXCEPT ![w].pc = "generate"]
    /\ UNCHANGED <<catalog, db, pc, clean, runs, edits, caller, attempts>>
    /\ UNCHANGED runVars

\* lines 303-304 and 476-481: find_combos raises
HandleImportFails(w) ==
    /\ driver[w].pc = "import"
    /\ jobs' = Failed(log_job(jobs, driver[w].job, "Fetching combos..."), driver[w].job)
    /\ driver' = [driver EXCEPT ![w] = [pc |-> "idle", job |-> 0]]
    /\ UNCHANGED <<catalog, db, pc, clean, runs, edits, caller, attempts>>
    /\ UNCHANGED runVars

\* lines 443-444: generate_variants(job) is called
HandleGenerate(w) ==
    /\ driver[w].pc = "generate"
    /\ pc = "idle"
    /\ runs < MaxRuns
    /\ TakeSnapshot
    /\ caller' = w
    /\ jobs' = log_job(jobs, driver[w].job, "Generating variants...")
    /\ driver' = [driver EXCEPT ![w].pc = "generating"]
    /\ UNCHANGED attempts

\* lines 445-474: generate_variants has returned; no variant belongs to an imported
\* combo, so the updates of lines 446-470 select nothing
HandleSucceeds(w) ==
    /\ pc = "done"
    /\ caller = w
    /\ DropLocals
    /\ jobs' = [log_jobs(jobs, driver[w].job,
                         <<"Generating variants...done", "There are 0 variants with multiple includes",
                           "Successfully imported 0/0 combos">>)
                   EXCEPT ![driver[w].job].termination = TRUE,
                          ![driver[w].job].status = Job_SUCCESS]
    /\ driver' = [driver EXCEPT ![w] = [pc |-> "idle", job |-> 0]]
    /\ caller' = NoJob
    /\ UNCHANGED attempts

\* lines 476-481: generate_variants has raised
HandleFails(w) ==
    /\ pc = "raised"
    /\ caller = w
    /\ DropLocals
    /\ jobs' = Failed(jobs, driver[w].job)
    /\ driver' = [driver EXCEPT ![w] = [pc |-> "idle", job |-> 0]]
    /\ caller' = NoJob
    /\ UNCHANGED attempts

\* the expected termination of a pending job passes
LeaseExpires ==
    /\ \E j \in 1..Len(jobs) :
          /\ jobs[j].status = Job_PENDING
          /\ ~jobs[j].expired
          /\ jobs' = [jobs EXCEPT ![j].expired = TRUE]
    /\ UNCHANGED <<catalog, db, pc, clean, runs, edits, driver, caller, attempts>>
    /\ UNCHANGED runVars

\* VariantAdmin.generate: the job command is launched, or a warning is shown
GenerateView ==
    /\ attempts < MaxAttempts
    /\ LET r == Job_start(jobs, "generate_variants")
       IN  /\ jobs' = r.jobs
           /\ driver' = [driver EXCEPT ![View] =
                            IF r.job = 0 THEN [pc |-> "warning", job |-> 0]
                            ELSE [pc |-> "info", job |-> r.job]]
    /\ attempts' = attempts + 1
    /\ UNCHANGED <<catalog, db, pc, clean, runs, edits, caller>>
    /\ UNCHANGED runVars

\* the launched command ends its job
LaunchedJobEnds ==
    /\ \E j \in 1..Len(jobs) :
          /\ jobs[j].name = "generate_variants"
          /\ jobs[j].status = Job_PENDING
          /\ jobs' = [jobs EXCEPT ![j].termination = TRUE, ![j].status = Job_SUCCESS]
    /\ UNCHANGED <<catalog, db, pc, clean, runs, edits, driver, caller, attempts>>
    /\ UNCHANGED runVars

\* ------------------------------------------------------------------ admin
UserText == <<"x">>

\* queryset.update(status=...)
update_status(variants, queryset, status) ==
    {IF v \in queryset THEN [v EXCEPT !.status = status] ELSE v : v \in variants}

\* the form of a variant saved
save_form(variants, v, status, frozen, description) ==
    (variants \ {v}) \cup {[v EXCEPT !.status = status, !.frozen = frozen,
                                     !.description = description]}

\* admin actions set_restore, set_draft, set_new, set_not_working on a selection
SetStatusAction ==
    /\ pc = "idle"
    /\ edits < MaxEdits
    /\ \E queryset \in SUBSET db :
       \E status \in {Status_RESTORE, Status_DRAFT, Status_NEW, Status_NOT_WORKING} :
          /\ queryset # {}
          /\ db' = update_status(db, queryset, status)
    /\ edits' = edits + 1
    /\ clean' = FALSE
    /\ UNCHANGED <<catalog, pc, runs>>
    /\ UNCHANGED runVars
    /\ UNCHANGED jobVars

\* the change form of VariantAdmin: fields of the 'Editable' fieldset (the status
\* is kept or set to OK, the other statuses being set by the actions above)
SaveVariantForm ==
    /\ pc = "idle"
    /\ edits < MaxEdits
    /\ \E v \in db :
       \E status \in {v.status, Status_OK}, frozen \in BOOLEAN, description \in {v.description, UserText} :
          db' = save_form(db, v, status, frozen, description)
    /\ edits' = edits + 1
    /\ clean' = FALSE
    /\ UNCHANGED <<catalog, pc, runs>>
    /\ UNCHANGED runVars
    /\ UNCHANGED jobVars

\* the change form of a combo: its generator flag
SetGenerator ==
    /\ pc = "idle"
    /\ edits < MaxEdits
    /\ \E b \in catalog.combos :
          catalog' = [catalog EXCEPT !.generator =
                         IF b \in @ THEN @ \ {b} ELSE @ \cup {b}]
    /\ edits' = edits + 1
    /\ clean' = FALSE
    /\ UNCHANGED <<db, pc, runs>>
    /\ UNCHANGED runVars
    /\ UNCHANGED jobVars

\* the change form of a card: its identity
SetIdentity ==
    /\ pc = "idle"
    /\ edits < MaxEdits
    /\ \E c \in catalog.cards :
          /\ catalog.identity[c] # <<"B">>
          /\ catalog' = [catalog EXCEPT !.identity[c] = <<"B">>]
    /\ edits' = edits + 1
    /\ clean' = FALSE
    /\ UNCHANGED <<db, pc, runs>>
    /\ UNCHANGED runVars
    /\ UNCHANGED jobVars

Next ==
    \/ StartRun
    \/ BeginRoot
    \/ SolveYield
    \/ EndRoot
    \/ Reconcile
    \/ ReconcileFails
    \/ Return
    \/ SetStatusAction
    \/ SaveVariantForm
    \/ SetGenerator
    \/ SetIdentity

Spec == Init /\ [][Next]_vars

\* ------------------------------------------------- runs driven by jobs
JobCatalogs == {Chain, ZeroCard}

JobInit == Init /\ catalog \in JobCatalogs

JobNext ==
    \/ \E w \in Commands : HandleStart(w)
    \/ \E w \in Commands : HandleImport(w)
    \/ \E w \in Commands : HandleImportFails(w)
    \/ \E w \in Commands : HandleGenerate(w)
    \/ BeginRoot
    \/ SolveYield
    \/ EndRoot
    \/ Reconcile
    \/ ReconcileFails
    \/ \E w \in Commands : HandleSucceeds(w)
    \/ \E w \in Commands : HandleFails(w)
    \/ LeaseExpires
    \/ GenerateView
    \/ LaunchedJobEnds

JobSpec == JobInit /\ [][JobNext]_vars

\* ------------------------------- runs over the same rows in another order
\* the rows of the combos, or the features a combo needs or produces, come in
\* another order; what the catalog holds is the same
Reorder ==
    /\ pc = "idle"
    /\ edits < MaxEdits
    /\ \/ \E order \in Orderings(catalog.combos) :
             /\ order # catalog.order
             /\ catalog' = [catalog EXCEPT !.order = order]
       \/ \E b \in catalog.combos : \E needs \in Orderings(Range(catalog.needs[b])) :
             /\ needs # catalog.needs[b]
             /\ catalog' = [catalog EXCEPT !.needs[b] = needs]
       \/ \E b \in catalog.combos : \E produces \in Orderings(Range(catalog.produces[b])) :
             /\ produces # catalog.produces[b]
             /\ catalog' = [catalog EXCEPT !.produces[b] = produces]
    /\ edits' = edits + 1
    /\ UNCHANGED <<db, pc, runs, clean>>
    /\ UNCHANGED runVars
    /\ UNCHANGED jobVars

\* catalogs for which the solver has a single optimum at every solve
OrderCatalogs == {Chain, Cycle, SharedCard, Budget, SharedRoots}

OrderInit == Init /\ catalog \in OrderCatalogs

OrderNext ==
    \/ StartRun
    \/ BeginRoot
    \/ SolveYield
    \/ EndRoot
    \/ Reconcile
    \/ Return
    \/ Reorder

OrderSpec == OrderInit /\ [][OrderNext]_vars

\* ------------------------------------- edits made while a run is computing
\* the admin actions on a selection, requested between the snapshot and the
\* transaction of a run
SetStatusDuringRun ==
    /\ pc \in {"root", "solve"}
    /\ edits < MaxEdits
    /\ \E queryset \in SUBSET db :
       \E status \in {Status_RESTORE, Status_DRAFT, Status_NEW, Status_NOT_WORKING} :
          /\ queryset # {}
          /\ db' = update_status(db, queryset, status)
    /\ edits' = edits + 1
    /\ UNCHANGED <<catalog, pc, runs, clean>>
    /\ UNCHANGED runVars
    /\ UNCHANGED jobVars

\* the change form of a variant, saved between the snapshot and the transaction
\* of a run
SaveVariantFormDuringRun ==
    /\ pc \in {"root", "solve"}
    /\ edits < MaxEdits
    /\ \E v \in db :
       \E status \in {v.status, Status_OK}, frozen \in BOOLEAN, description \in {v.description, UserText} :
          db' = save_form(db, v, status, frozen, description)
    /\ edits' = edits + 1
    /\ UNCHANGED <<catalog, pc, runs, clean>>
    /\ UNCHANGED runVars
    /\ UNCHANGED jobVars

ConcCatalogs == {Chain, SharedRoots}

ConcInit == InitOver(ConcCatalogs)

ConcNext ==
    \/ StartRun
    \/ BeginRoot
    \/ SolveYield
    \/ EndRoot
    \/ Reconcile
    \/ Return
    \/ SetStatusAction
    \/ SaveVariantForm
    \/ SetGenerator
    \/ SetStatusDuringRun
    \/ SaveVariantFormDuringRun

ConcSpec == ConcInit /\ [][ConcNext]_vars

\* ------------------------------------------ the enumeration of the variants
EnumCatalogs == Catalogs \cup {CardsFirst}

EnumInit == InitOver(EnumCatalogs)

EnumNext ==
    \/ StartRun
    \/ BeginRoot
    \/ SolveYield
    \/ EndRoot
    \/ Reconcile
    \/ Return

EnumSpec == EnumInit /\ [][EnumNext]_vars

\* ------------------------------------------- the list utilities on their own
\* the lists of at most n elements of S
ListsOf(S, n) == UNION {[1..k -> S] : k \in 0..n}

\* identity strings: empty, single colours in either case, several colours, and
\* characters that are no colour
IdentityStrings == {<<>>, <<"W">>, <<"u">>, <<"B">>, <<"S">>, <<"C">>, <<"W", "U">>, <<"g", "r">>}

\* the ids the sets of includes_any are made of
SetIds == 1..3

allButCall == <<catalog, db, pc, data, to_restore, old_id_set, roots, rootIdx, graph, model,
                result, ret, hist, clean, runs, edits, yields, tx, jobs, driver, caller, attempts,
                trace>>

\* merge_identities(identities) called on a list of strings
CallMergeIdentities ==
    /\ call = NoCall
    /\ \E identities \in ListsOf(IdentityStrings, MaxLen) :
          call' = [fn |-> "merge_identities", identities |-> identities,
                   out |-> merge_identities(identities)]
    /\ UNCHANGED allButCall

\* includes_any(v, others) called on a set and a list of sets
CallIncludesAny ==
    /\ call = NoCall
    /\ \E v \in SUBSET SetIds : \E others \in ListsOf(SUBSET SetIds, MaxLen) :
          call' = [fn |-> "includes_any", v |-> v, others |-> others,
                   out |-> includes_any(v, others)]
    /\ UNCHANGED allButCall

UtilInit == Init /\ catalog = Chain

UtilNext ==
    \/ CallMergeIdentities
    \/ CallIncludesAny

UtilSpec == UtilInit /\ [][UtilNext]_vars

\* ------------------------------------------------------------- properties
RunCompleted == pc = "done"

ComputedIds == {x.unique_id : x \in result}

PersistedAs(v) == {w \in db : w.unique_id = v.unique_id}

NotWorkingBefore == {n.uses : n \in {x \in hist.pre : x.status = Status_NOT_WORKING}}

Tainted(card_ids) == \E o \in NotWorkingBefore : o \subseteq card_ids

SameEditableFields(v, w) ==
    /\ w.status = v.status
    /\ w.mana_needed = v.mana_needed
    /\ w.other_prerequisites = v.other_prerequisites
    /\ w.description = v.description
    /\ w.zone_locations = v.zone_locations
    /\ w.cards_state = v.cards_state

SameTextFields(v, w) ==
    /\ w.mana_needed = v.mana_needed
    /\ w.other_prerequisites = v.other_prerequisites
    /\ w.description = v.description
    /\ w.zone_locations = v.zone_locations
    /\ w.cards_state = v.cards_state

\* features granted by the cards
Granted(K, cards) == {f \in K.features : Range(K.fcards[f]) \cap cards # {}}

\* least set of features containing F and closed under firing the given combos
\* from the given cards and templates
RECURSIVE Derivable(_, _, _, _, _)
Derivable(K, cards, templates, combos, F) ==
    LET fire == {b \in combos : /\ Range(K.uses[b]) \subseteq cards
                                /\ Range(K.requires[b]) \subseteq templates
                                /\ Range(K.needs[b]) \subseteq F}
        F2 == F \cup UNION {Range(K.produces[b]) : b \in fire}
    IN  IF F2 = F THEN F ELSE Derivable(K, cards, templates, combos, F2)

CanFire(K, g, cards, templates, combos) ==
    /\ Range(K.uses[g]) \subseteq cards
    /\ Range(K.requires[g]) \subseteq templates
    /\ Range(K.needs[g]) \subseteq Derivable(K, cards, templates, combos, Granted(K, cards))

\* C1: a variant that is frozen when a run starts is still persisted when the
\* run has completed, whatever the run computed.
C1_FrozenNeverDeleted ==
    RunCompleted => \A v \in hist.pre : v.frozen => PersistedAs(v) # {}

C1_Witness ==
    /\ RunCompleted
    /\ \E v \in hist.pre : v.frozen /\ v.unique_id \notin ComputedIds /\ v \in db

\* C2: the status and the text fields of a variant that is frozen when a run
\* starts are the same after the run.
C2_FrozenFieldsPreserved ==
    RunCompleted => \A v \in hist.pre : v.frozen => \A w \in PersistedAs(v) : SameEditableFields(v, w)

\* C3: every computed and every persisted variant has at most MAX_CARDS_IN_COMBO
\* cards and templates together, and no variant is computed for a generator combo
\* that itself uses more than that.
C3_Budget ==
    /\ \A x \in result :
          /\ Len(x.card_ids) + Len(x.template_ids) <= MAX_CARDS_IN_COMBO
          /\ \A g \in x.of_ids :
                Cardinality(Range(catalog.uses[g])) + Cardinality(Range(catalog.requires[g]))
                    <= MAX_CARDS_IN_COMBO
    /\ \A v \in db : Cardinality(v.uses) + Cardinality(v.requires) <= MAX_CARDS_IN_COMBO

C3_Witness ==
    /\ RunCompleted
    /\ db # {}
    /\ \E k \in 1..Len(roots) :
          Cardinality(Range(catalog.uses[roots[k]])) + Cardinality(Range(catalog.requires[roots[k]]))
              > MAX_CARDS_IN_COMBO

C5_Idempotent ==
    (RunCompleted /\ hist.succ) =>
        /\ ret = <<0, 0, 0>>
        /\ {<<w.unique_id, w.status>> : w \in db} = {<<v.unique_id, v.status>> : v \in hist.pre}

\* C6: every combo a computed variant is "of" is a generator combo that fires from
\* the variant's cards and templates, its needed features being derived from them
\* by the included combos without a circular derivation.
C6_Grounded ==
    \A x \in result : \A g \in x.of_ids :
        /\ g \in catalog.generator
        /\ CanFire(catalog, g, Range(x.card_ids), Range(x.template_ids), x.included_ids)

\* C7: when the computation has completed, every generator combo that can fire from
\* a set of at most MAX_CARDS_IN_COMBO cards and templates has a computed variant
\* within that set.
C7_Complete ==
    RunCompleted =>
        \A g \in catalog.generator :
        \A S \in SUBSET catalog.cards : \A T \in SUBSET catalog.templates :
            (/\ Cardinality(S) + Cardinality(T) <= MAX_CARDS_IN_COMBO
             /\ CanFire(catalog, g, S, T, catalog.combos))
            => \E x \in result : /\ g \in x.of_ids
                                 /\ Range(x.card_ids) \subseteq S
                                 /\ Range(x.template_ids) \subseteq T

\* C8: after a run the persisted unique ids are the computed ones together with
\* those of the variants that were frozen before the run and were not computed.
C8_PersistedIds ==
    RunCompleted =>
        {w.unique_id : w \in db} =
            ComputedIds \cup {v.unique_id : v \in {x \in hist.pre : x.frozen /\ x.unique_id \notin ComputedIds}}

C8_Witness ==
    /\ RunCompleted
    /\ \E v \in hist.pre : ~v.frozen /\ v.unique_id \notin ComputedIds
    /\ \E v \in hist.pre : v.unique_id \in ComputedIds
    /\ ret[3] > 0

\* C9: a variant that was RESTORE before the run and is computed again has its
\* text fields joined from its included combos and status NEW, or NOT_WORKING when
\* its cards include a not-working card set; no computed variant stays RESTORE.
C9_Restored ==
    RunCompleted =>
        /\ \A v \in hist.pre :
              (v.status = Status_RESTORE /\ v.unique_id \in ComputedIds) =>
                  /\ PersistedAs(v) # {}
                  /\ \A w \in PersistedAs(v) :
                        /\ w.zone_locations = joined_field(catalog, w.includes, "zone_locations", "\n")
                        /\ w.cards_state = joined_field(catalog, w.includes, "cards_state", "\n")
                        /\ w.other_prerequisites = joined_field(catalog, w.includes, "other_prerequisites", "\n")
                        /\ w.description = joined_field(catalog, w.includes, "description", "\n")
                        /\ w.mana_needed = joined_field(catalog, w.includes, "mana_needed", " ")
                        /\ w.status = IF Tainted(w.uses) THEN Status_NOT_WORKING ELSE Status_NEW
        /\ \A w \in db : w.unique_id \in ComputedIds => w.status # Status_RESTORE

C9_Witness ==
    /\ RunCompleted
    /\ \E v \in hist.pre : \E w \in db :
          /\ w.unique_id = v.unique_id
          /\ v.status = Status_RESTORE
          /\ v.description = UserText
          /\ Cardinality(w.includes) > 1
          /\ w.description # v.description
          /\ w.status = Status_NEW

\* C10: a variant that was not RESTORE before the run, is computed again and whose
\* cards include no not-working card set keeps its status and its text fields.
C10_Untouched ==
    RunCompleted =>
        \A v \in hist.pre :
            (/\ v.status # Status_RESTORE
             /\ v.unique_id \in ComputedIds
             /\ ~Tainted(v.uses))
            => /\ PersistedAs(v) # {}
               /\ \A w \in PersistedAs(v) : w.status = v.status /\ SameTextFields(v, w)

C10_Witness ==
    /\ RunCompleted
    /\ \E v \in hist.pre : \E w \in db :
          /\ w.unique_id = v.unique_id
          /\ v.status = Status_DRAFT
          /\ v.description = UserText
          /\ w.description = UserText
          /\ v.unique_id \in ComputedIds
          /\ ~Tainted(v.uses)

\* C11: no two persisted variants have the same unique id, and neither do two
\* computed definitions; a run creates exactly the computed ids that were not
\* persisted when it started.
C11_UniqueIds ==
    /\ \A v, w \in db : v.unique_id = w.unique_id => v = w
    /\ \A x, y \in result : x.unique_id = y.unique_id => x = y
    /\ RunCompleted =>
          ret[1] = Cardinality({w \in db : \A v \in hist.pre : v.unique_id # w.unique_id})

C11_Witness ==
    /\ RunCompleted
    /\ ret[1] > 0
    /\ \E v \in hist.pre : v.unique_id \in ComputedIds
    /\ Cardinality(db) >= 2

\* C12: the unique id of every persisted variant is the fingerprint of its cards and
\* templates listed in any order, and a run leaves the cards and templates of the
\* variants it found persisted as they were.
C12_Fingerprint ==
    /\ \A w \in db : \A cs \in Orderings(w.uses) : \A ts \in Orderings(w.requires) :
          unique_id_from_cards_and_templates_ids(cs, ts) = w.unique_id
    /\ RunCompleted =>
          \A v \in hist.pre : \A w \in PersistedAs(v) : w.uses = v.uses /\ w.requires = v.requires

C12_Witness ==
    /\ RunCompleted
    /\ \E x \in result : \E v \in hist.pre : \E w \in db :
          /\ v.unique_id = x.unique_id
          /\ w.unique_id = x.unique_id
          /\ x.card_ids # sorted(x.card_ids)
          /\ Cardinality(w.uses) >= 2

\* C13: after a run no computed variant produces a utility feature.
C13_NoUtility ==
    RunCompleted =>
        \A w \in db : w.unique_id \in ComputedIds => w.produces \cap catalog.utility = {}

C13_Witness ==
    /\ RunCompleted
    /\ \E x \in result : \E w \in db :
          /\ w.unique_id = x.unique_id
          /\ x.feature_ids \cap catalog.utility # {}
          /\ w.produces # {}

\* C14: after a run what a computed variant produces is disjoint from what the
\* combos it includes remove.
C14_NoRemoved ==
    RunCompleted =>
        \A w \in db : w.unique_id \in ComputedIds =>
            w.produces \cap UNION {catalog.removes[b] : b \in w.includes} = {}

C14_Witness ==
    /\ RunCompleted
    /\ \E x \in result : \E w \in db :
          /\ w.unique_id = x.unique_id
          /\ Cardinality(x.of_ids) >= 2
          /\ w.includes = x.included_ids
          /\ \E b1, b2 \in w.includes :
                Range(catalog.produces[b1]) \cap catalog.removes[b2] \cap x.feature_ids # {}
          /\ w.produces # {}

\* the union of the cards' identities in WUBRG order, "C" when it is empty
ColorIdentity(K, card_ids) ==
    LET letters == UNION {{upper(K.identity[c][j]) : j \in 1..Len(K.identity[c])} : c \in card_ids}
        wubrg == SelectSeq(<<"W", "U", "B", "R", "G">>, LAMBDA color : color \in letters)
    IN  IF wubrg = <<>> THEN <<"C">> ELSE wubrg

\* C15: after a run the identity of every computed variant is the union of the
\* current identities of its cards, in WUBRG order, "C" when the union is empty.
C15_Identity ==
    RunCompleted =>
        \A w \in db : w.unique_id \in ComputedIds => w.identity = ColorIdentity(catalog, w.uses)

\* C16: for every fingerprint yielded in the run the dict holds one definition, of
\* exactly the combos it was yielded for, including the combos and the features of
\* every yield.
C16_Merged ==
    \A u \in {y.unique_id : y \in yields} :
        LET ys == {y \in yields : y.unique_id = u}
            xs == {x \in result : x.unique_id = u}
        IN  /\ Cardinality(xs) = 1
            /\ \A x \in xs :
                  /\ x.of_ids = {y.combo_id : y \in ys}
                  /\ x.included_ids = UNION {y.combo_ids : y \in ys}
                  /\ x.feature_ids = UNION {y.feature_ids : y \in ys}

C16_Witness ==
    \E x \in result :
        /\ Cardinality(x.of_ids) >= 2
        /\ \E y1, y2 \in yields :
              /\ y1.unique_id = x.unique_id
              /\ y2.unique_id = x.unique_id
              /\ y1.combo_ids # y2.combo_ids
              /\ y1.feature_ids # y2.feature_ids

\* C18: when the transaction of a run has raised, the persisted variants are the
\* ones persisted when the run started.
C18_Atomic ==
    pc = "raised" => db = hist.pre

C18_Witness ==
    /\ pc = "raised"
    /\ hist.pre # {}
    /\ tx # hist.pre
    /\ \E w \in tx : \A v \in hist.pre : v.unique_id # w.unique_id
    /\ \E w \in tx : \E v \in hist.pre : v.unique_id = w.unique_id /\ v # w

\* the fields of a variant that the computation determines
Links(v) ==
    [unique_id |-> v.unique_id, uses |-> v.uses, requires |-> v.requires, of |-> v.of,
     includes |-> v.includes, produces |-> v.produces]

\* C17: a run over the same catalog, with its rows read in whatever order, computes
\* the variants the run before it computed: the persisted ids, cards, templates and
\* links are the same.
C17_OrderIndependent ==
    (RunCompleted /\ hist.succ) => {Links(w) : w \in db} = {Links(v) : v \in hist.pre}

\* the command holds a pending job whose expected termination has not passed
Holding(w) ==
    /\ driver[w].job # 0
    /\ jobs[driver[w].job].status = Job_PENDING
    /\ ~jobs[driver[w].job].expired

\* C19: at most one job of a name is running, at most one command holds a running
\* job, and a command or view that got no job does nothing more: the run in
\* progress belongs to a command that got a job.
C19_SingleWriter ==
    /\ \A j1, j2 \in 1..Len(jobs) :
          (/\ jobs[j1].name = jobs[j2].name
           /\ jobs[j1].status = Job_PENDING /\ ~jobs[j1].expired
           /\ jobs[j2].status = Job_PENDING /\ ~jobs[j2].expired) => j1 = j2
    /\ \A w1, w2 \in Commands : (Holding(w1) /\ Holding(w2)) => w1 = w2
    /\ \A w \in Commands : driver[w].job = 0 => driver[w].pc \in {"idle", "refused"}
    /\ driver[View].job = 0 => driver[View].pc \in {"idle", "warning"}
    /\ pc # "idle" => caller \in Commands
    /\ caller # NoJob => driver[caller].job # 0 /\ driver[caller].pc = "generating"

C19_Witness ==
    \E w1, w2 \in Commands :
        /\ Holding(w1)
        /\ driver[w1].pc = "generating"
        /\ pc = "solve"
        /\ driver[w2].pc = "refused"

\* C20: a job is pending, or has ended with a termination time as SUCCESS or
\* FAILURE; the job of a command that has ended is not pending; the message of a
\* failed job holds every progress message written for it.
C20_JobEnds ==
    \A j \in 1..Len(jobs) :
        /\ jobs[j].status \in {Job_PENDING, Job_SUCCESS, Job_FAILURE}
        /\ jobs[j].termination <=> jobs[j].status # Job_PENDING
        /\ (\A w \in Commands : driver[w].job # j) /\ jobs[j].name = "import_combos"
              => jobs[j].status # Job_PENDING
        /\ jobs[j].status = Job_FAILURE =>
              \A k \in 1..Len(jobs[j].logged) : jobs[j].logged[k] \in Range(jobs[j].message)


\* the lower-case form of a colour
Lower(color) == CASE color = "W" -> "w" [] color = "U" -> "u" [] color = "B" -> "b"
                  [] color = "R" -> "r" [] color = "G" -> "g"

\* the characters of the strings of a list
Characters(strings) == UNION {Range(strings[k]) : k \in 1..Len(strings)}

\* C21: merge_identities returns the letters of W, U, B, R, G that occur in either
\* case in some input, each once and in that order, and "C" when none occurs; the
\* result is the same for every list made of the same strings, in any order and
\* with any repetition.
C21_MergeIdentities ==
    call.fn = "merge_identities" =>
        LET colors == {color \in {"W", "U", "B", "R", "G"} :
                          {color, Lower(color)} \cap Characters(call.identities) # {}}
        IN  /\ call.out = IF colors = {} THEN <<"C">>
                          ELSE SelectSeq(<<"W", "U", "B", "R", "G">>, LAMBDA color : color \in colors)
            /\ \A other \in ListsOf(Range(call.identities), MaxLen + 1) :
                  Range(other) = Range(call.identities) => merge_identities(other) = call.out

\* C22: includes_any(v, others) is true exactly when some element of others is a
\* subset of v.
C22_IncludesAny ==
    call.fn = "includes_any" =>
        (call.out <=> \E k \in 1..Len(call.others) : call.others[k] \subseteq call.v)

\* a first element that is no subset of v, then the empty set, matched by the empty v
C22_Witness ==
    /\ call.fn = "includes_any"
    /\ Len(call.others) = 2
    /\ call.v = {}
    /\ call.others[1] # {}
    /\ call.others[2] = {}
    /\ call.out = TRUE


\* the enumeration of a root is under way or was left by an exception
Enumerating == pc \in {"solve", "raised"} /\ trace # <<>>

CardCount(A) == Cardinality(IdsOf("card", A))
TemplateCount(A) == Cardinality(IdsOf("template", A))

\* the cuts added before the k-th yield of the current root
CutsBefore(k) ==
    {{CardNode(c) : c \in Range(trace[j].cards)} : j \in {i \in 1..(k - 1) : trace[i].cards # <<>>}}

\* the assignments that fire the current root and that the cuts before the k-th
\* yield do not exclude
Candidates(k) ==
    {B \in SUBSET model.nodes :
        Feasible(catalog, graph, model.nodes, roots[rootIdx], CutsBefore(k), B)}

\* C23 as claimed: the variant just yielded has the least total of cards and
\* templates among the candidates, with the fewest cards among those of that
\* total; the totals of successive variants do not decrease; the solution of the
\* second solve has the value of the first objective that the first solve found.
C23_MinimalTotal ==
    Enumerating =>
        LET k == Len(trace)
            A == trace[k].A
        IN  /\ \A B \in Candidates(k) :
                  \/ IngredientCount(A) < IngredientCount(B)
                  \/ IngredientCount(A) = IngredientCount(B) /\ CardCount(A) <= CardCount(B)
            /\ k > 1 => IngredientCount(trace[k - 1].A) <= IngredientCount(A)
            /\ \A B \in Candidates(k) : objexpr1(model.nodes, A) <= objexpr1(model.nodes, B)

\* C23: the variant just yielded has the fewest cards among the candidates, with
\* the fewest templates among those of that many cards; the pairs (cards,
\* templates) of successive variants do not decrease in that order; the solution
\* of the second solve has the value of the first objective that the first solve
\* found.
C23_MinimalCards ==
    Enumerating =>
        LET k == Len(trace)
            A == trace[k].A
            P == IF k > 1 THEN trace[k - 1].A ELSE {}
        IN  /\ A \in Candidates(k)
            /\ \A B \in Candidates(k) :
                  \/ CardCount(A) < CardCount(B)
                  \/ CardCount(A) = CardCount(B) /\ TemplateCount(A) <= TemplateCount(B)
            /\ k > 1 => \/ CardCount(P) < CardCount(A)
                        \/ CardCount(P) = CardCount(A) /\ TemplateCount(P) <= TemplateCount(A)
            /\ \A B \in Candidates(k) : objexpr1(model.nodes, A) <= objexpr1(model.nodes, B)

\* a second variant of more cards and fewer ingredients than the first
C23_Witness ==
    /\ pc = "solve"
    /\ Len(trace) = 2
    /\ CardCount(trace[1].A) < CardCount(trace[2].A)
    /\ IngredientCount(trace[2].A) < IngredientCount(trace[1].A)


\* the variant yielded last for the current root
LastYield == trace[Len(trace)]

\* C24: every combo included in the variant just yielded has the cards it uses
\* among the variant's cards, the templates it requires among the variant's
\* templates and the features it needs among the variant's features.
C24_IncludedHaveIngredients ==
    Enumerating =>
        \A b \in IdsOf("combo", LastYield.A) :
            /\ Range(catalog.uses[b]) \subseteq IdsOf("card", LastYield.A)
            /\ Range(catalog.requires[b]) \subseteq IdsOf("template", LastYield.A)
            /\ Range(catalog.needs[b]) \subseteq IdsOf("feature", LastYield.A)

\* C25: among the variants yielded for one root, the cards of an earlier one are
\* never all among the cards of a later one.
C25_NoSuperset ==
    \A i, j \in 1..Len(trace) :
        i < j => ~(Range(trace[i].cards) \subseteq Range(trace[j].cards))

\* two variants yielded for one root
C25_Witness ==
    /\ pc = "solve"
    /\ Len(trace) = 2
    /\ Range(trace[1].cards) # Range(trace[2].cards)

\* the card subsets within the budget
CardSubsets ==
    {S \in SUBSET IdsOf("card", model.nodes) : Cardinality(S) <= MAX_CARDS_IN_COMBO}

\* C26: the loop of Graph.variants yields at most as many variants as there are
\* card subsets within the budget and is left only when solve_combo_model returns
\* False, also after a solution of zero cards; after every call of
\* solve_combo_model the Sequential list is empty and no objective is active.
C26_LoopEnds ==
    /\ Enumerating => Len(trace) <= Cardinality(CardSubsets)
    /\ ~(pc = "raised" /\ rootIdx <= Len(roots))
    /\ pc \in {"solve", "raised"} => model.Sequential = <<>> /\ model.active = {}
    /\ pc = "solve" =>
          LET after == solve_combo_model(catalog, graph, model, roots[rootIdx]).model
          IN  after.Sequential = <<>> /\ after.active = {}

\* C27: within one root _combo_nodes_down is entered at most once for a combo; a
\* combo that needs a feature in state VISITING returns no nodes; the root of a
\* yielded variant fires from the variant's cards and templates through the
\* included combos without a circular derivation.
C27_PruningEnds ==
    /\ \A i, j \in 1..Len(graph.entered) : i # j => graph.entered[i] # graph.entered[j]
    /\ \A b \in catalog.combos : \A f \in Range(catalog.needs[b]) :
          combo_nodes_down(catalog, SetState(graph, {FeatureNode(f)}, VISITING), b, 0, 0).nodes = {}
    /\ Enumerating =>
          CanFire(catalog, roots[rootIdx], IdsOf("card", LastYield.A),
                  IdsOf("template", LastYield.A), IdsOf("combo", LastYield.A))

\* every node is NOT_VISITED, at depth 0 and not down
Untouched(g) ==
    \A n \in AllNodes(catalog) :
        g.state[n] = NOT_VISITED /\ g.depth[n] = 0 /\ g.down[n] = FALSE

\* C28: when the pruning of a root starts every node is NOT_VISITED, at depth 0
\* and not down, and the pruned nodes and the fields the passes leave are those
\* the root gives when it is pruned first on a new graph.
C28_ResetBetweenRoots ==
    /\ pc = "root" => Untouched(graph)
    /\ pc = "solve" =>
          LET p == Prune(catalog, Graph_init(catalog), roots[rootIdx])
          IN  /\ model.nodes = p.nodes
              /\ graph.state = p.g.state
              /\ graph.depth = p.g.depth
              /\ graph.down = p.g.down

\* a second root being solved after a first root whose pruning returned early
C28_Witness ==
    /\ pc = "solve"
    /\ rootIdx = 2
    /\ catalog = Budget

\* C30: the cards of the variant just yielded are listed by ascending depth, and
\* by ascending id among cards of the same depth.
C30_CardOrder ==
    Enumerating =>
        \A i, j \in 1..Len(LastYield.cards) :
            i < j =>
                LET a == LastYield.cards[i]
                    b == LastYield.cards[j]
                IN  \/ graph.depth[CardNode(a)] < graph.depth[CardNode(b)]
                    \/ graph.depth[CardNode(a)] = graph.depth[CardNode(b)] /\ a < b

\* C29: the decisions of a run are those the variants persisted when the run
\* started call for: a variant not computed is deleted unless it was frozen then, a
\* computed variant that was RESTORE then is restored, and a computed variant that
\* was not OK then and whose cards include a card set that was not-working then is
\* NOT_WORKING.
C29_SingleSnapshot ==
    RunCompleted =>
        \A v \in hist.pre :
            /\ v.unique_id \notin ComputedIds => (PersistedAs(v) # {} <=> v.frozen)
            /\ (v.unique_id \in ComputedIds /\ v.status = Status_RESTORE) =>
                  \A w \in PersistedAs(v) : w.status \in {Status_NEW, Status_NOT_WORKING}
            /\ (v.unique_id \in ComputedIds /\ v.status # Status_OK /\ Tainted(v.uses)) =>
                  \A w \in PersistedAs(v) : w.status = Status_NOT_WORKING


====
